---- MODULE Spec2Model ----
(***************************************************************************)
(* Model of the MQTT -> InfluxDB backend of lesson5/homework5/backend:     *)
(* main() builds the receiver, subscribes to "#" once and runs             *)
(* loop_forever(); the on_message callback routes the topic, decodes the   *)
(* JSON payload, filters the entries and writes the records of the message *)
(* with one write_points call.                                             *)
(*                                                                         *)
(* Strings that the code takes apart (topics) are sequences of one-char    *)
(* strings.  JSON values are records [type, ...] tagged with the Python    *)
(* type json.loads gives them.  Numbers are held in tenths (215 is 21.5).  *)
(***************************************************************************)
EXTENDS Integers, Sequences, FiniteSets, TLC

\* ------------------------------------------------------------------ bounds
MaxTopicLen == 3
MaxEntries == 2
MaxMessages == 2

\* ------------------------------------------------------- Python data model
Sep == "/"
TopicChars == {"g", "s", Sep}

\* A date-time text "YYYY-MM-DD<sep>HH:MM:SS", field by field.
DateText(y, mo, d, sp, h, mi, s) ==
    [year |-> y, month |-> mo, day |-> d, sep |-> sp,
     hour |-> h, minute |-> mi, second |-> s]

NoText == DateText(0, 0, 0, "", 0, 0, 0)

\* datetime(year, month, day, hour, minute, second)
Datetime(y, mo, d, h, mi, s) ==
    [year |-> y, month |-> mo, day |-> d, hour |-> h, minute |-> mi,
     second |-> s]

NoDatetime == Datetime(0, 0, 0, 0, 0, 0)
TextNoon == DateText(2024, 1, 1, " ", 12, 0, 0)
TextLater == DateText(2024, 2, 29, " ", 23, 59, 30)
TextIso == DateText(2024, 1, 1, "T", 12, 0, 0)
TextMonth13 == DateText(2024, 13, 1, " ", 12, 0, 0)

\* Python values: [type, val]; val is the number in tenths, 0 where unused.
PyVal(t, v) == [type |-> t, val |-> v]
None == PyVal("NoneType", 0)
Missing == PyVal("missing", 0)

\* The value stored under a key 'timestamp': [type, text].
TsVal(t, x) == [type |-> t, text |-> x]
TsMissing == TsVal("missing", NoText)

\* bool(x)
Truthy(x) ==
    CASE x.type = "NoneType" -> FALSE
      [] x.type = "missing" -> FALSE
      [] x.type = "str" -> TRUE
      [] OTHER -> x.val /= 0

\* Mutant of PyOr: the operands the other way round (value or None).
PyOr_Swapped(a, b) == IF Truthy(b) THEN b ELSE a

\* a or b
PyOr(a, b) == IF Truthy(a) THEN a ELSE b

\* Mutant of IsFloat: a test for None only (value is not None).
IsFloat_NotNone(value) == value.type /= "NoneType"

\* isinstance(value, float)
IsFloat(value) == value.type = "float"

\* TIMESTAMP_FMT = "%Y-%m-%d %H:%M:%S"
TIMESTAMP_FMT == [dateSep |-> " "]

IsLeap(y) == (y % 4 = 0 /\ y % 100 /= 0) \/ y % 400 = 0

DaysIn(y, mo) ==
    CASE mo = 2 -> IF IsLeap(y) THEN 29 ELSE 28
      [] mo \in {4, 6, 9, 11} -> 30
      [] OTHER -> 31

\* datetime.strptime(timestamp, fmt): [exc, dt]
Strptime(timestamp, fmt) ==
    IF timestamp.type /= "str"
    THEN [exc |-> "TypeError", dt |-> NoDatetime]
    ELSE LET t == timestamp.text IN
         IF /\ t.sep = fmt.dateSep
            /\ t.year \in 1..9999
            /\ t.month \in 1..12
            /\ t.day \in 1..DaysIn(t.year, t.month)
            /\ t.hour \in 0..23
            /\ t.minute \in 0..59
            /\ t.second \in 0..59
         THEN [exc |-> "none",
               dt |-> Datetime(t.year, t.month, t.day, t.hour, t.minute,
                               t.second)]
         ELSE [exc |-> "ValueError", dt |-> NoDatetime]

\* str.split(sep)
RECURSIVE Split(_, _)
Split(s, sep) ==
    IF \A i \in 1..Len(s) : s[i] /= sep
    THEN <<s>>
    ELSE LET k == CHOOSE i \in 1..Len(s) :
                    s[i] = sep /\ \A j \in 1..(i - 1) : s[j] /= sep
         IN <<SubSeq(s, 1, k - 1)>> \o Split(SubSeq(s, k + 1, Len(s)), sep)

\* ------------------------------------------------------ on_message, parts
\* A decoded payload is [type, items]; items are [key, entry] in the order
\* iteration gives them.  An entry is [type, timestamp, value]; for a str or
\* list entry, timestamp.type /= "missing" says that 'timestamp' is in it.
Entry(t, ts, v) == [type |-> t, timestamp |-> ts, value |-> v]
Item(k, e) == [key |-> k, entry |-> e]
Payload(t, its) == [type |-> t, items |-> its]

\* What on_message leaves behind: how it ended, what it derived, the list it
\* built and the write_points calls it made.
Result(out, ex, st, rt, loc, sta, dec, n, msgs, cs, com) ==
    [outcome |-> out, exc |-> ex, stage |-> st, routed |-> rt,
     location |-> loc, station |-> sta, decoded |-> dec, examined |-> n,
     messages |-> msgs, calls |-> cs, committed |-> com]

NoResult == Result("none", "none", "none", FALSE, <<>>, <<>>, FALSE, 0,
                   <<>>, <<>>, <<>>)

\* Mutant of TopicIsInvalid: len(topic.split("/")) < 2.
TopicIsInvalid_FewerThanTwo(topic) == Len(Split(topic, Sep)) < 2

\* len(topic.split("/")) != 2
TopicIsInvalid(topic) == Len(Split(topic, Sep)) /= 2

\* json.loads(message.payload.decode()): [exc, value]
JsonLoads(raw) ==
    IF raw.type = "invalid"
    THEN [exc |-> "JSONDecodeError", value |-> Payload("none", <<>>)]
    ELSE [exc |-> "none", value |-> raw]

\* 'timestamp' not in payload[measurement]: [exc, absent]
TimestampNotIn(entry) ==
    IF entry.type \in {"dict", "str", "list"}
    THEN [exc |-> "none", absent |-> entry.timestamp.type = "missing"]
    ELSE [exc |-> "TypeError", absent |-> FALSE]

\* payload[measurement].get('value')
GetValue(entry) == IF entry.value.type = "missing" THEN None ELSE entry.value

\* The dict appended to messages.
Point(measurement, location, station, dt, value) ==
    [timestamp |-> dt, measurement |-> measurement,
     tags |-> [location |-> location, station |-> station],
     fields |-> [value |-> value]]

LoopEnd(ex, st, n, msgs) ==
    [exc |-> ex, stage |-> st, examined |-> n, messages |-> msgs]

\* for measurement in payload: ... (from item i on, messages built so far)
RECURSIVE Loop(_, _, _, _, _)
Loop(payload, i, location, station, messages) ==
    IF payload.type \notin {"dict", "list", "str"}
    THEN LoopEnd("TypeError", "iterate", 0, messages)
    ELSE IF i > Len(payload.items)
    THEN LoopEnd("none", "done", Len(payload.items), messages)
    ELSE IF payload.type /= "dict"
    THEN LoopEnd("TypeError", "subscript", i, messages)
    ELSE LET measurement == payload.items[i].key
             entry == payload.items[i].entry
             check == TimestampNotIn(entry)
         IN IF check.exc /= "none"
            THEN LoopEnd(check.exc, "timestamp_check", i, messages)
            ELSE IF check.absent
            THEN Loop(payload, i + 1, location, station, messages)
            ELSE IF entry.type /= "dict"
            THEN LoopEnd("TypeError", "timestamp_get", i, messages)
            ELSE LET timestamp == entry.timestamp
                     value == PyOr(None, GetValue(entry))
                 IN IF ~IsFloat(value)
                    THEN Loop(payload, i + 1, location, station, messages)
                    ELSE LET parsed == Strptime(timestamp, TIMESTAMP_FMT)
                         IN IF parsed.exc /= "none"
                            THEN LoopEnd(parsed.exc, "strptime", i, messages)
                            ELSE Loop(payload, i + 1, location, station,
                                      Append(messages,
                                             Point(measurement, location,
                                                   station, parsed.dt, value)))

\* Mutant of ShouldWrite: the write is not guarded.
ShouldWrite_Always(messages) == TRUE

\* if messages:
ShouldWrite(messages) == messages /= <<>>

\* Mutant of Flush: the write sits in a finally clause, so the list built so
\* far is written when the loop raised, too.
Flush_Finally(loop, sinkOk) ==
    IF loop.messages = <<>>
    THEN [exc |-> loop.exc, stage |-> loop.stage, calls |-> <<>>,
          committed |-> <<>>]
    ELSE [exc |-> loop.exc, stage |-> loop.stage, calls |-> <<loop.messages>>,
          committed |-> IF sinkOk THEN loop.messages ELSE <<>>]

\* if messages: influxdb_client.write_points(messages), after the loop ended
\* as `loop`: [exc, stage, calls, committed]
Flush(loop, sinkOk) ==
    IF loop.exc /= "none"
    THEN [exc |-> loop.exc, stage |-> loop.stage, calls |-> <<>>,
          committed |-> <<>>]
    ELSE IF ~ShouldWrite(loop.messages)
    THEN [exc |-> "none", stage |-> "done", calls |-> <<>>, committed |-> <<>>]
    ELSE IF sinkOk
    THEN [exc |-> "none", stage |-> "done", calls |-> <<loop.messages>>,
          committed |-> loop.messages]
    ELSE [exc |-> "ConnectionError", stage |-> "write_points",
          calls |-> <<loop.messages>>, committed |-> <<>>]

\* on_message(client, userdata, message), with the sink up or down
HandleMessage(message, sinkOk) ==
    LET topic == message.topic IN
    IF TopicIsInvalid(topic)
    THEN Result("returned", "none", "topic", FALSE, <<>>, <<>>, FALSE, 0,
                <<>>, <<>>, <<>>)
    ELSE LET parts == Split(topic, Sep) IN
    IF Len(parts) /= 2
    THEN Result("raised", "ValueError", "unpack", FALSE, <<>>, <<>>, FALSE, 0,
                <<>>, <<>>, <<>>)
    ELSE LET location == parts[1]
             station == parts[2]
             loaded == JsonLoads(message.payload)
         IN IF loaded.exc /= "none"
            THEN Result("raised", loaded.exc, "json.loads", TRUE, location,
                        station, FALSE, 0, <<>>, <<>>, <<>>)
            ELSE LET loop == Loop(loaded.value, 1, location, station, <<>>)
                     end == Flush(loop, sinkOk)
                 IN Result(IF end.exc = "none" THEN "returned" ELSE "raised",
                           end.exc, end.stage, TRUE, location, station, TRUE,
                           loop.examined, loop.messages, end.calls,
                           end.committed)

\* ------------------------------------------------------------------ inputs
\* Topics: every string of 1..MaxTopicLen characters over TopicChars.
Topics == UNION {[1..n -> TopicChars] : n \in 1..MaxTopicLen}

TopicGS == <<"g", Sep, "s">>

Names == <<"temperature", "humidity", "pressure", "co2">>

Timestamps ==
    {TsMissing, TsVal("str", TextNoon), TsVal("str", TextLater),
     TsVal("str", TextIso), TsVal("str", TextMonth13), TsVal("int", NoText)}

Values ==
    {Missing, None, PyVal("str", 215), PyVal("bool", 1), PyVal("bool", 0),
     PyVal("int", 210),
     PyVal("float", 215), PyVal("float", 0)}

DictEntries == {Entry("dict", ts, v) : ts \in Timestamps, v \in Values}

\* Entries that json.loads gives another type than dict.
OtherEntries ==
    {Entry("NoneType", TsMissing, Missing), Entry("int", TsMissing, Missing),
     Entry("str", TsMissing, Missing),
     Entry("str", TsVal("member", NoText), Missing),
     Entry("list", TsMissing, Missing),
     Entry("list", TsVal("member", NoText), Missing)}

\* The entries that payloads of two or more entries are built from.
CoreEntries ==
    {Entry("dict", TsVal("str", TextNoon), PyVal("float", 215)),
     Entry("dict", TsVal("str", TextLater), PyVal("float", 0)),
     Entry("dict", TsMissing, PyVal("float", 215)),
     Entry("dict", TsVal("str", TextNoon), Missing),
     Entry("dict", TsVal("str", TextIso), PyVal("str", 215)),
     Entry("dict", TsVal("str", TextIso), PyVal("float", 215)),
     Entry("NoneType", TsMissing, Missing)}

ItemsOver(entries, n) ==
    {[i \in 1..n |-> Item(Names[i], f[i])] : f \in [1..n -> entries]}

DictPayloads ==
    {Payload("dict", its) :
        its \in ItemsOver(DictEntries \cup OtherEntries, 1)
                  \cup UNION {ItemsOver(CoreEntries, n) : n \in 0..MaxEntries}}

\* Bodies that are no JSON, and JSON that is no object.
OtherPayloads ==
    {Payload("invalid", <<>>), Payload("NoneType", <<>>),
     Payload("float", <<>>), Payload("list", <<>>), Payload("str", <<>>),
     Payload("list", <<Item("0", Entry("int", TsMissing, Missing))>>),
     Payload("str", <<Item("x", Entry("str", TsMissing, Missing))>>)}

PayloadOne ==
    Payload("dict", <<Item(Names[1], Entry("dict", TsVal("str", TextNoon),
                                          PyVal("float", 215)))>>)

Message(t, p) == [topic |-> t, payload |-> p]

Messages ==
    {Message(t, p) : t \in Topics, p \in {PayloadOne, Payload("invalid", <<>>)}}
    \cup {Message(TopicGS, p) : p \in DictPayloads \cup OtherPayloads}

NoMessage == Message(<<>>, Payload("none", <<>>))

\* ----------------------------------------------------------- state machine
VARIABLES pc, session, brokerSubs, message, result, delivered

vars == <<pc, session, brokerSubs, message, result, delivered>>

Init ==
    /\ pc = "start"
    /\ session = "disconnected"
    /\ brokerSubs = {}
    /\ message = NoMessage
    /\ result = NoResult
    /\ delivered = 0

\* create_mqtt_receiver -> create_mqtt_client: client.connect(host, ...)
Connect ==
    /\ pc = "start"
    /\ pc' = "created"
    /\ session' = "connected"
    /\ UNCHANGED <<brokerSubs, message, result, delivered>>

\* receiver.subscribe("#")
Subscribe ==
    /\ pc = "created"
    /\ pc' = "subscribed"
    /\ brokerSubs' = brokerSubs \cup {"#"}
    /\ UNCHANGED <<session, message, result, delivered>>

\* receiver.loop_forever()
LoopForever ==
    /\ pc = "subscribed"
    /\ pc' = "loop"
    /\ UNCHANGED <<session, brokerSubs, message, result, delivered>>

\* The loop calls on_message for a message the broker sends on the "#"
\* subscription; an exception of the callback leaves loop_forever and main.
OnMessage(m, sinkOk) ==
    /\ pc = "loop"
    /\ session = "connected"
    /\ "#" \in brokerSubs
    /\ delivered < MaxMessages
    /\ LET r == HandleMessage(m, sinkOk) IN
        /\ message' = m
        /\ result' = r
        /\ delivered' = delivered + 1
        /\ IF r.outcome = "raised"
           THEN pc' = "crashed" /\ session' = "disconnected" /\ brokerSubs' = {}
           ELSE UNCHANGED <<pc, session, brokerSubs>>

\* The transport drops: on_disconnect logs; the session was opened with
\* clean_session (mqtt.Client default), so the broker forgets its filters.
Disconnect ==
    /\ pc = "loop"
    /\ session = "connected"
    /\ session' = "disconnected"
    /\ brokerSubs' = {}
    /\ UNCHANGED <<pc, message, result, delivered>>

\* loop_forever reconnects; on_connect logs and subscribes to nothing.
Reconnect ==
    /\ pc = "loop"
    /\ session = "disconnected"
    /\ session' = "connected"
    /\ UNCHANGED <<pc, brokerSubs, message, result, delivered>>

Next ==
    \/ Connect
    \/ Subscribe
    \/ LoopForever
    \/ \E m \in Messages, sinkOk \in BOOLEAN : OnMessage(m, sinkOk)
    \/ Disconnect
    \/ Reconnect

Spec == Init /\ [][Next]_vars

\* ------------------------------------------------- vocabulary of the claims
\* message and result are the last message handed to on_message and what
\* the call left behind.
Handled == delivered > 0

Items == message.payload.items

\* Date-time texts in the format YYYY-MM-DD HH:MM:SS.
WellFormedTexts == {TextNoon, TextLater}

AsDatetime(t) == Datetime(t.year, t.month, t.day, t.hour, t.minute, t.second)

\* An entry with a valid timestamp and a float value.
ValidEntry(e) ==
    /\ e.type = "dict"
    /\ e.timestamp.type = "str"
    /\ e.timestamp.text \in WellFormedTexts
    /\ e.value.type = "float"

\* An entry without a timestamp key, or whose value is missing, null, a
\* string or a boolean.
SkippedEntry(e) ==
    /\ e.type = "dict"
    /\ \/ e.timestamp.type = "missing"
       \/ e.value.type \in {"missing", "NoneType", "str", "bool"}

\* An entry that the per-entry checks filter out.
FilteredEntry(e) ==
    /\ e.type = "dict"
    /\ e.timestamp.type = "missing" \/ e.value.type /= "float"

\* An entry with a float value whose timestamp is a string in another format.
UnparseableEntry(e) ==
    /\ e.type = "dict"
    /\ e.timestamp.type = "str"
    /\ e.timestamp.text \notin WellFormedTexts
    /\ e.value.type = "float"

\* Segments: strings without a separator; NonEmptySegments: those of the
\* topics "L/S" the specification calls valid.
Segments == UNION {[1..n -> TopicChars \ {Sep}] : n \in 0..MaxTopicLen}
NonEmptySegments == Segments \ {<<>>}
Join(L, S) == L \o <<Sep>> \o S
ValidTopic(topic) ==
    \E L \in NonEmptySegments, S \in NonEmptySegments : topic = Join(L, S)
Separators(topic) == Cardinality({i \in 1..Len(topic) : topic[i] = Sep})

\* The record the claims expect for an item of a message on topic L/S.
ExpectedPoint(L, S, item) ==
    [timestamp |-> AsDatetime(item.entry.timestamp.text),
     measurement |-> item.key,
     tags |-> [location |-> L, station |-> S],
     fields |-> [value |-> item.entry.value]]

ExpectedPoints(L, S, items) ==
    [i \in 1..Len(items) |-> ExpectedPoint(L, S, items[i])]

IsValidItem(item) == ValidEntry(item.entry)
ValidItems == SelectSeq(Items, IsValidItem)

\* All records handed to the sink by the call, in order.
RECURSIVE Flatten(_)
Flatten(calls) ==
    IF calls = <<>> THEN <<>> ELSE Head(calls) \o Flatten(Tail(calls))

Written == Flatten(result.calls)

\* The exception, if any, is the sink's: the handler itself did not fail.
HandlerDidNotFail == result.exc \in {"none", "ConnectionError"}

\* ------------------------------------------------------------------ claims
\* C1: a message on a valid topic whose payload cannot be decoded as a mapping of measurement
\* name to entry object (no JSON, JSON that is no object, an entry that is
\* no object) is dropped without a sink write, and the pipeline goes on
\* handling messages.
Undecodable(payload) ==
    \/ payload.type /= "dict"
    \/ \E i \in 1..Len(payload.items) : payload.items[i].entry.type /= "dict"

C1_DecodeFailureNeverAborts ==
    (Handled /\ ValidTopic(message.topic) /\ Undecodable(message.payload))
        => /\ pc = "loop"
           /\ result.outcome = "returned"
           /\ result.calls = <<>>

\* C2: an entry without a timestamp key, or whose value is missing, null, a
\* string or a boolean, is in no record handed to the sink, and the handler
\* never fails at such an entry; when the other entries of the payload are
\* valid, exactly their records are handed to the sink, in order.
C2_SkippedEntryExcluded ==
    (Handled /\ result.routed /\ message.payload.type = "dict")
        => /\ \A i \in 1..Len(Items), j \in 1..Len(Written) :
                SkippedEntry(Items[i].entry)
                    => Written[j].measurement /= Items[i].key
           /\ ~HandlerDidNotFail
                => /\ result.examined \in 1..Len(Items)
                   /\ ~SkippedEntry(Items[result.examined].entry)
           /\ (\A i \in 1..Len(Items) :
                  SkippedEntry(Items[i].entry) \/ ValidEntry(Items[i].entry))
                => /\ HandlerDidNotFail
                   /\ Len(result.calls) <= 1
                   /\ Written = ExpectedPoints(result.location,
                                               result.station, ValidItems)

C2_Witness ==
    /\ Handled
    /\ Len(Items) = 2
    /\ Items[1].entry.type = "dict"
    /\ Items[1].entry.timestamp.type = "str"
    /\ Items[1].entry.value.type = "missing"
    /\ ValidEntry(Items[2].entry)
    /\ result.outcome = "returned"
    /\ result.committed = <<ExpectedPoint(<<"g">>, <<"s">>, Items[2])>>

\* C3: for a message on a topic L/S whose payload entries all have a valid
\* timestamp and a float value, the sink is handed exactly one record per
\* entry, in payload order, with measurement = key, tags {L, S}, the
\* entry's timestamp and fields.value = the entry's value (0.0 included).
C3_OneRecordPerValidEntry ==
    \A L \in NonEmptySegments, S \in NonEmptySegments :
        (/\ Handled
         /\ message.topic = Join(L, S)
         /\ message.payload.type = "dict"
         /\ \A i \in 1..Len(Items) : ValidEntry(Items[i].entry))
            => /\ HandlerDidNotFail
               /\ Len(result.calls) <= 1
               /\ Written = ExpectedPoints(L, S, Items)

C3_Witness ==
    /\ Handled
    /\ message.topic = TopicGS
    /\ Len(Items) = 2
    /\ \A i \in 1..2 : ValidEntry(Items[i].entry)
    /\ Items[2].entry.value = PyVal("float", 0)
    /\ Len(result.calls) = 1
    /\ Len(result.calls[1]) = 2
    /\ result.calls[1][2].fields.value = PyVal("float", 0)
    /\ result.committed = result.calls[1]

\* C4: a topic L/S with exactly one separator is routed to location L and
\* station S; a topic with no separator or with two or more is dropped
\* before the payload is decoded: no record is built, the sink is not called.
C4_TopicRouting ==
    Handled
        => /\ \A L \in NonEmptySegments, S \in NonEmptySegments :
                message.topic = Join(L, S)
                    => /\ result.routed
                       /\ result.location = L
                       /\ result.station = S
           /\ Separators(message.topic) /= 1
                => /\ ~result.routed
                   /\ ~result.decoded
                   /\ result.outcome = "returned"
                   /\ result.messages = <<>>
                   /\ result.calls = <<>>

C4_Witness ==
    /\ Handled
    /\ Separators(message.topic) = 2
    /\ message.payload = PayloadOne
    /\ ~result.routed
    /\ result.outcome = "returned"
    /\ result.calls = <<>>
    /\ pc = "loop"

\* C5: whenever the session is connected and the loop is receiving, the "#"
\* subscription is in place (after a reconnect, too).
C5_SubscribedWhenActive ==
    (pc = "loop" /\ session = "connected") => "#" \in brokerSubs

\* C6: a write of the records of a message (on a valid topic) that meets an
\* unavailable sink is attempted again and the records are committed, and
\* the handler keeps processing messages.
C6_UnavailableWriteRetried ==
    (Handled /\ ValidTopic(message.topic) /\ result.calls /= <<>>)
        => /\ result.committed = result.messages
           /\ result.exc /= "ConnectionError"
           /\ pc = "loop"

\* C7: the sink is called only with a non-empty list; a message that yields
\* no valid record (empty object, or every entry filtered out) makes no call.
C7_NoEmptyWrite ==
    Handled
        => /\ \A k \in 1..Len(result.calls) : result.calls[k] /= <<>>
           /\ (/\ result.routed
               /\ message.payload.type = "dict"
               /\ \A i \in 1..Len(Items) : FilteredEntry(Items[i].entry))
                => /\ result.outcome = "returned"
                   /\ result.examined = Len(Items)
                   /\ result.calls = <<>>

C7_Witness ==
    /\ Handled
    /\ result.routed
    /\ Len(Items) = 2
    /\ \A i \in 1..2 : FilteredEntry(Items[i].entry)
    /\ result.outcome = "returned"
    /\ result.examined = 2
    /\ result.calls = <<>>

\* C8: a topic with one separator and an empty location or station is
\* rejected by routing (no record is built from its payload), and no record
\* with an empty location or station tag is handed to the sink.
HasEmptySegment(topic) ==
    \E X \in Segments : topic = Join(<<>>, X) \/ topic = Join(X, <<>>)

C8_EmptySegmentRejected ==
    (Handled /\ result.outcome = "returned")
        => /\ HasEmptySegment(message.topic)
                => result.messages = <<>> /\ result.calls = <<>>
           /\ \A j \in 1..Len(Written) :
                /\ Written[j].tags.location /= <<>>
                /\ Written[j].tags.station /= <<>>

\* C9: an entry with a float value whose timestamp is not in the format
\* YYYY-MM-DD HH:MM:SS is dropped alone: the valid entries of the message
\* are handed to the sink and the pipeline goes on handling messages.
C9_UnparseableTimestampDropped ==
    (/\ Handled
     /\ ValidTopic(message.topic)
     /\ message.payload.type = "dict"
     /\ \E i \in 1..Len(Items) : UnparseableEntry(Items[i].entry)
     /\ \A i \in 1..Len(Items) :
            \/ UnparseableEntry(Items[i].entry)
            \/ ValidEntry(Items[i].entry)
            \/ SkippedEntry(Items[i].entry))
        => /\ HandlerDidNotFail
           /\ Written = ExpectedPoints(result.location, result.station,
                                       ValidItems)
           /\ pc = "loop"

\* C10: a call of on_message calls the sink at most once, only after it has
\* examined every entry, with exactly the valid records of that message;
\* when the handling aborts at an entry, no record of the message reaches
\* the sink.
C10_OneWritePerMessage ==
    Handled
        => /\ Len(result.calls) <= 1
           /\ result.calls /= <<>>
                => /\ result.examined = Len(Items)
                   /\ \A L \in Segments, S \in Segments :
                        message.topic = Join(L, S)
                            => result.calls[1] = ExpectedPoints(L, S, ValidItems)
           /\ ~HandlerDidNotFail => result.calls = <<>> /\ result.committed = <<>>

C10_Witness ==
    /\ Handled
    /\ Len(Items) = 2
    /\ ValidEntry(Items[1].entry)
    /\ result.exc = "ValueError"
    /\ result.stage = "strptime"
    /\ result.examined = 2
    /\ Len(result.messages) = 1
    /\ result.calls = <<>>

====
